---- MODULE Spec2Model ----
(***************************************************************************)
(* A model of geta: a Service that holds one in-memory payload behind an   *)
(* RwLock<Arc<Inner>>, answers GET/HEAD with ETag handling and content-    *)
(* encoding negotiation, and decodes the payload on a blocking worker that *)
(* feeds the response body through a tokio mpsc channel of capacity 1.     *)
(*                                                                         *)
(* Text bytes (header values, the ETag token) are sequences of one-        *)
(* character strings; payload bytes are sequences of small naturals.       *)
(***************************************************************************)
EXTENDS Naturals, Sequences, FiniteSets

(* ----------------------------------------------------------------------- *)
(* Bounds of the model.                                                    *)
(* ----------------------------------------------------------------------- *)

\* number of fills that complete in one behaviour
MaxFills == 2

\* number of owner configuration steps (set_encoding, headers edits)
MaxConfig == 2

\* the most bytes one read of a decoder returns; the source reads into a
\* buffer of 512 bytes (BytesMut::zeroed(512)), the model into a smaller one
ChunkSize == 2

(* ----------------------------------------------------------------------- *)
(* Program constants.                                                      *)
(* ----------------------------------------------------------------------- *)

\* a channel with room for one chunk more
ChannelCapacityTwo == 1 + 1

\* mpsc::channel(1)
ChannelCapacity == 1

(* ----------------------------------------------------------------------- *)
(* encoding.rs                                                             *)
(* ----------------------------------------------------------------------- *)

Encoding == {"Identity", "Br", "Gzip", "Deflate"}

as_str(e) ==
    CASE e = "Identity" -> <<"i", "d", "e", "n", "t", "i", "t", "y">>
      [] e = "Br"       -> <<"b", "r">>
      [] e = "Gzip"     -> <<"g", "z", "i", "p">>
      [] e = "Deflate"  -> <<"d", "e", "f", "l", "a", "t", "e">>

\* slice::windows(n): every contiguous sub-slice of length n (n > 0)
windows(s, n) == { SubSeq(s, i, i + n - 1) : i \in 1..(Len(s) + 1 - n) }

\* a test of the start of the header value only
is_contained_in_prefix(e, target) ==
    /\ Len(target) >= Len(as_str(e))
    /\ SubSeq(target, 1, Len(as_str(e))) = as_str(e)

\* is_contained_in as a whole-value comparison instead of a scan
is_contained_in_exact(e, target) == target = as_str(e)

is_contained_in(e, target) ==
    \E window \in windows(target, Len(as_str(e))) : window = as_str(e)

(* ----------------------------------------------------------------------- *)
(* etag.rs                                                                 *)
(* ----------------------------------------------------------------------- *)

Quote == "q"

HexDigit ==
    <<"0", "1", "2", "3", "4", "5", "6", "7",
      "8", "9", "a", "b", "c", "d", "e", "f">>

\* write!(etag, "{byte:02x}")
Hex02(byte) == <<HexDigit[(byte \div 16) + 1], HexDigit[(byte % 16) + 1]>>

RECURSIVE HexAll(_)
HexAll(digest) ==
    IF digest = <<>> THEN <<>>
    ELSE Hex02(Head(digest)) \o HexAll(Tail(digest))

\* ring::digest SHA-256, abstracted as a collision-free digest of two bytes:
\* payload bytes are 0..3 and payloads have at most 4 bytes, so the base-5
\* value of the payload is below 65536 and distinct for distinct payloads.
RECURSIVE Sha256Value(_)
Sha256Value(bytes) ==
    IF bytes = <<>> THEN 0
    ELSE (Head(bytes) + 1) + 5 * Sha256Value(Tail(bytes))

Sha256(bytes) ==
    <<(Sha256Value(bytes) \div 256) % 256, Sha256Value(bytes) % 256>>

\* ETag::new
ETagNew(digest) == <<Quote>> \o HexAll(digest) \o <<Quote>>

\* ETag::empty
ETagEmpty == <<Quote, Quote>>

\* impl From<T> for ETag
ETagFrom(bytes) == ETagNew(Sha256(bytes))

\* a comparison of the whole header value with the token
matches_whole(etag, if_none_match_header) == if_none_match_header = etag

\* ETag::matches
matches(etag, if_none_match_header) ==
    \E window \in windows(if_none_match_header, Len(etag)) : window = etag

(* ----------------------------------------------------------------------- *)
(* http::HeaderMap, as the sequence of (name, value) pairs it iterates.    *)
(* ----------------------------------------------------------------------- *)

HeaderHas(h, k) == \E i \in 1..Len(h) : h[i][1] = k

\* the values stored under name k, in order
HeaderGetAll(h, k) ==
    LET hit(p) == p[1] = k
        only == SelectSeq(h, hit)
    IN  [i \in 1..Len(only) |-> only[i][2]]

\* a remove that leaves the map as it was
HeaderRemoveNothing(h, k) == h

\* HeaderMap::remove: every value of the name goes
HeaderRemove(h, k) ==
    LET keep(p) == p[1] # k
    IN  SelectSeq(h, keep)

\* HeaderMap::append / response::Builder::header: a further value of a name
\* already present sits with that name's values, a new name goes last
HeaderAppend(h, k, v) ==
    IF HeaderHas(h, k)
    THEN LET last == CHOOSE i \in 1..Len(h) :
                         /\ h[i][1] = k
                         /\ \A j \in (i + 1)..Len(h) : h[j][1] # k
         IN  SubSeq(h, 1, last) \o <<(<<k, v>>)>> \o SubSeq(h, last + 1, Len(h))
    ELSE Append(h, <<k, v>>)

\* HeaderMap::insert: the name keeps its place and is left with one value
HeaderInsert(h, k, v) ==
    IF HeaderHas(h, k)
    THEN LET first == CHOOSE i \in 1..Len(h) :
                          /\ h[i][1] = k
                          /\ \A j \in 1..(i - 1) : h[j][1] # k
         IN  SubSeq(h, 1, first - 1) \o <<(<<k, v>>)>>
                 \o HeaderRemove(SubSeq(h, first + 1, Len(h)), k)
    ELSE Append(h, <<k, v>>)

(* ----------------------------------------------------------------------- *)
(* Payloads and the decompressors.                                         *)
(* ----------------------------------------------------------------------- *)

\* The decompressors (brotli_decompressor, flate2) are libraries. The model
\* gives each encoding a small run-length format: a magic byte naming the
\* encoding, then (count, byte) pairs; a wrong magic, a count of zero or a
\* dangling count is malformed input.
Magic(e) ==
    CASE e = "Br" -> 1
      [] e = "Gzip" -> 2
      [] e = "Deflate" -> 3
      [] OTHER -> 0

RECURSIVE Repeat(_, _)
Repeat(byte, count) ==
    IF count = 0 THEN <<>> ELSE <<byte>> \o Repeat(byte, count - 1)

\* the plaintext a decoder produces before it ends (ok) or fails (~ok)
RECURSIVE DecodeRuns(_)
DecodeRuns(s) ==
    IF s = <<>> THEN [out |-> <<>>, ok |-> TRUE]
    ELSE IF Len(s) = 1 \/ s[1] = 0 THEN [out |-> <<>>, ok |-> FALSE]
    ELSE LET rest == DecodeRuns(SubSeq(s, 3, Len(s)))
         IN  [out |-> Repeat(s[2], s[1]) \o rest.out, ok |-> rest.ok]

Decode(e, bytes) ==
    IF bytes = <<>> \/ bytes[1] # Magic(e)
    THEN [out |-> <<>>, ok |-> FALSE]
    ELSE DecodeRuns(Tail(bytes))

\* the payloads the owner fills the store with
Bodies ==
    { <<>>,             \* zero length
      <<2, 3, 1>>,      \* gzip of <<1, 1, 1>>
      <<1, 2, 0>>,      \* br of <<0, 0>>
      <<3, 1, 2>>,      \* deflate of <<2>>
      <<2, 2, 1, 1>> }  \* gzip of <<1, 1>>, then a dangling count

\* Buf::has_remaining
has_remaining(bytes) == Len(bytes) > 0

(* ----------------------------------------------------------------------- *)
(* Requests.                                                               *)
(* ----------------------------------------------------------------------- *)

Methods == {"GET", "HEAD", "POST"}

\* If-None-Match: the values the request carries under the name, in order
IfNoneMatchChoices ==
    { <<>>,
      << <<"W">> \o ETagFrom(<<2, 3, 1>>) \o <<",">> \o ETagEmpty >>,
      << <<"*">>, ETagFrom(<<1, 2, 0>>) >> }

\* Accept-Encoding: the values the request carries under the name, in order
AcceptEncodingChoices ==
    { <<>>,
      << <<"g", "z", "i", "p">> >>,
      << <<"b", "r", ",", "d", "e", "f", "l", "a", "t", "e">> >>,
      << <<"i", "d", "e", "n", "t", "i", "t", "y">>, <<"g", "z", "i", "p">> >> }

Requests ==
    [method : Methods,
     if_none_match : IfNoneMatchChoices,
     accept_encoding : AcceptEncodingChoices]

\* a lookup that gives the last value of a header, not the first
HeaderGetLast(values) ==
    IF values = <<>> THEN [some |-> FALSE, value |-> <<>>]
    ELSE [some |-> TRUE, value |-> values[Len(values)]]

\* HeaderMap::get: the first value under the name, if any
HeaderGet(values) ==
    IF values = <<>> THEN [some |-> FALSE, value |-> <<>>]
    ELSE [some |-> TRUE, value |-> values[1]]

(* ----------------------------------------------------------------------- *)
(* The state.                                                              *)
(* ----------------------------------------------------------------------- *)

VARIABLES
    headers,    \* Service::headers
    encoding,   \* Service::encoding
    buf,        \* Service::buf: the Inner behind the Arc the RwLock holds
    nfills,     \* fills completed
    nconfig,    \* owner configuration steps taken
    call,       \* per slot: position of call, its request, its cloned Arc
    resp,       \* per slot: the response under construction / returned
    body,       \* per slot: the Body of the response
    chan,       \* per slot: the mpsc channel between worker and Body::Stream
    worker,     \* per slot: the spawn_blocking decoder task
    seen,       \* per slot: what the consumer of the body has been given
    lock,       \* the RwLock of Service::buf: its read guards, its write guard
    probe       \* the last direct application of a header-matching function

vars ==
    <<headers, encoding, buf, nfills, nconfig,
      call, resp, body, chan, worker, seen, lock, probe>>

\* the request slots: each holds one call and, once it returned, its
\* response until that is dropped
Calls == DOMAIN call

\* The properties of a response are those of one call; calls share nothing
\* but the store they read, so the specification runs one slot.
CallSlots == {1}

\* Inner::Empty and Inner::Filled { etag, body }
InnerEmpty == [kind |-> "Empty", etag |-> <<>>, body |-> <<>>]
\* a zero-length body stored as if nothing had been stored
InnerFilledUnlessEmpty(etag, bytes) ==
    IF bytes = <<>> THEN InnerEmpty
    ELSE [kind |-> "Filled", etag |-> etag, body |-> bytes]
InnerFilled(etag, bytes) == [kind |-> "Filled", etag |-> etag, body |-> bytes]

NoRequest == [method |-> "GET", if_none_match |-> <<>>, accept_encoding |-> <<>>]

IdleCall == [pc |-> "idle", req |-> NoRequest, snap |-> InnerEmpty]
NoResponse == [status |-> 0, headers |-> <<>>]
NoBody ==
    [kind |-> "None", inner |-> <<>>, text |-> "", taken |-> FALSE,
     dropped |-> FALSE]
NoChannel == [queue |-> <<>>, tx |-> FALSE, rx |-> FALSE]
NoWorker ==
    [pc |-> "none", enc |-> "Identity", src |-> <<>>, pos |-> 0,
     chunk |-> <<>>, pushed |-> <<>>]
NothingSeen == [frames |-> <<>>, done |-> FALSE]

\* RwLock::new: no guard is out
Unlocked == [readers |-> {}, writer |-> FALSE]

\* no direct application made
NoProbe ==
    [fn |-> "none", applied |-> FALSE, etag |-> <<>>, enc |-> "Identity",
     target |-> <<>>, result |-> FALSE]

\* Service::default
Init ==
    /\ headers = <<>>
    /\ encoding = "Identity"
    /\ buf = InnerEmpty
    /\ nfills = 0
    /\ nconfig = 0
    /\ call = [r \in CallSlots |-> IdleCall]
    /\ resp = [r \in CallSlots |-> NoResponse]
    /\ body = [r \in CallSlots |-> NoBody]
    /\ chan = [r \in CallSlots |-> NoChannel]
    /\ worker = [r \in CallSlots |-> NoWorker]
    /\ seen = [r \in CallSlots |-> NothingSeen]
    /\ lock = Unlocked
    /\ probe = NoProbe

(* ----------------------------------------------------------------------- *)
(* The owner's configuration: set_encoding and the public headers field.   *)
(* Both need &mut self, so no call and no fill is in progress; the model   *)
(* configures between responses, when every request slot is free.         *)
(* ----------------------------------------------------------------------- *)

Quiescent == lock = Unlocked /\ \A r \in Calls : call[r].pc = "idle"

\* Service::set_encoding
SetEncoding(e) ==
    /\ Quiescent
    /\ nconfig < MaxConfig
    /\ encoding' = e
    /\ headers' = HeaderInsert(headers, "content-encoding", as_str(e))
    /\ nconfig' = nconfig + 1
    /\ UNCHANGED <<lock, probe, buf, nfills, call, resp, body, chan, worker, seen>>

\* the headers the owner puts into Service::headers directly
OwnerHeaders ==
    { <<"content-type", <<"t", "x", "t">> >>,
      <<"content-encoding", <<"g", "z", "i", "p">> >> }

\* service.headers.insert(name, value)
OwnerInsert(k, v) ==
    /\ Quiescent
    /\ nconfig < MaxConfig
    /\ headers' = HeaderInsert(headers, k, v)
    /\ nconfig' = nconfig + 1
    /\ UNCHANGED <<lock, probe, encoding, buf, nfills, call, resp, body, chan,
                   worker, seen>>

\* service.headers.append(name, value)
OwnerAppend(k, v) ==
    /\ Quiescent
    /\ nconfig < MaxConfig
    /\ headers' = HeaderAppend(headers, k, v)
    /\ nconfig' = nconfig + 1
    /\ UNCHANGED <<lock, probe, encoding, buf, nfills, call, resp, body, chan,
                   worker, seen>>

(* ----------------------------------------------------------------------- *)
(* Service::fill                                                           *)
(* ----------------------------------------------------------------------- *)

\* fill hashing every body, the zero-length one too
FillEtagAlwaysHash(bytes) == ETagFrom(bytes)

\* lines 49-53: the etag of the new body
FillEtag(bytes) ==
    IF has_remaining(bytes) THEN ETagFrom(bytes) ELSE ETagEmpty

\* line 54, self.buf.write(): the write guard is granted when no guard is
\* out. The etag was computed before, from the caller's own body.
FillLock ==
    /\ nfills < MaxFills
    /\ lock = Unlocked
    /\ lock' = [lock EXCEPT !.writer = TRUE]
    /\ UNCHANGED <<headers, encoding, buf, nfills, nconfig, call, resp, body,
                   chan, worker, seen, probe>>

\* line 54, the assignment through the guard and the end of the statement:
\* self.buf becomes a new Arc and the write guard, a temporary, is dropped.
\* Fills by several threads are thus a sequence of such swaps, in the order
\* the lock is granted.
Fill(bytes) ==
    /\ lock.writer
    /\ buf' = InnerFilled(FillEtag(bytes), bytes)
    /\ nfills' = nfills + 1
    /\ lock' = [lock EXCEPT !.writer = FALSE]
    /\ UNCHANGED <<probe, headers, encoding, nconfig, call, resp, body, chan, worker,
                   seen>>

(* ----------------------------------------------------------------------- *)
(* body.rs: the variants of Body                                           *)
(* ----------------------------------------------------------------------- *)

BodyEmpty == [NoBody EXCEPT !.kind = "Empty"]

\* Body::Buf { inner: Some(buf) }
BodyBuf(bytes) == [NoBody EXCEPT !.kind = "Buf", !.inner = bytes]

\* Body::from_static: Body::Bytes { inner: Some(bytes) }
BodyBytes(text) == [NoBody EXCEPT !.kind = "Bytes", !.text = text]

\* Body::from(rx): Body::Stream { rx }
BodyStream == [NoBody EXCEPT !.kind = "Stream"]

(* ----------------------------------------------------------------------- *)
(* Service::call                                                           *)
(* ----------------------------------------------------------------------- *)

\* a method gate that lets every method through
AllowedMethodAny(m) == TRUE

\* lines 58-64: GET and HEAD pass the method gate
AllowedMethod(m) == m \in {"GET", "HEAD"}

method_not_allowed ==
    [res |-> [status |-> 405, headers |-> <<>>],
     body |-> BodyBytes("Method not allowed")]

\* no_content without .status(NO_CONTENT): the builder's default status
no_content_default_status ==
    [res |-> [status |-> 200, headers |-> <<>>], body |-> BodyEmpty]

no_content == [res |-> [status |-> 204, headers |-> <<>>], body |-> BodyEmpty]

not_modified == [res |-> [status |-> 304, headers |-> <<>>], body |-> BodyEmpty]

\* call looking at self.buf again instead of at the Arc it cloned
as_ref_current(held, current) == current

\* line 68, buf.as_ref(): the Inner behind the Arc that call cloned; the
\* Arc's content never changes, so it is what was cloned whatever self.buf
\* holds by now
as_ref(held, current) == held

\* the conditional match applied to GET only
IfNoneMatchHitGet(etag, req) ==
    /\ req.method = "GET"
    /\ req.if_none_match # <<>>
    /\ matches(etag, req.if_none_match[1])

\* lines 71-75
IfNoneMatchHit(etag, req) ==
    LET if_none_match == HeaderGet(req.if_none_match)
    IN  if_none_match.some /\ matches(etag, if_none_match.value)

\* lines 79-81: every configured header goes into the response
RECURSIVE CopyHeaders(_, _)
CopyHeaders(res, hs) ==
    IF hs = <<>> THEN res
    ELSE CopyHeaders(HeaderAppend(res, hs[1][1], hs[1][2]), Tail(hs))

\* a 200 response that forgets the configured headers
OkHeadersEtagOnly(hs, etag) == <<(<<"etag", etag>>)>>

\* lines 77-82
OkHeaders(hs, etag) == HeaderAppend(CopyHeaders(<<>>, hs), "etag", etag)

\* a body choice without the arm of the Identity encoding: every encoding
\* the request does not name is decoded
ServeDecodingIdentity(enc, req, bytes, hs) ==
    LET pass == [headers |-> hs, body |-> BodyBuf(bytes), spawn |-> FALSE]
        decode == [headers |-> HeaderRemove(hs, "content-encoding"),
                   body |-> BodyStream, spawn |-> TRUE]
        accept_encoding == HeaderGet(req.accept_encoding)
    IN  IF has_remaining(bytes)
        THEN IF accept_encoding.some
             THEN IF is_contained_in(enc, accept_encoding.value) THEN pass
                  ELSE decode
             ELSE pass
        ELSE [headers |-> HeaderRemove(hs, "content-encoding"),
              body |-> BodyEmpty, spawn |-> FALSE]

\* lines 88-175: the body of a GET, and what becomes of the headers
Serve(enc, req, bytes, hs) ==
    LET pass == [headers |-> hs, body |-> BodyBuf(bytes), spawn |-> FALSE]
        decode == [headers |-> HeaderRemove(hs, "content-encoding"),
                   body |-> BodyStream, spawn |-> TRUE]
        accept_encoding == HeaderGet(req.accept_encoding)
    IN  IF has_remaining(bytes)
        THEN IF accept_encoding.some
             THEN IF enc = "Identity" THEN pass
                  ELSE IF is_contained_in(enc, accept_encoding.value) THEN pass
                  ELSE decode
             ELSE pass
        ELSE [headers |-> HeaderRemove(hs, "content-encoding"),
              body |-> BodyEmpty, spawn |-> FALSE]

\* spawn_br_decoder / spawn_gzip_decoder / spawn_deflate_decoder: the task
\* starts at its first read, over the clone of the body
SpawnDecoder(enc, bytes) ==
    [pc |-> "read", enc |-> enc, src |-> bytes, pos |-> 0, chunk |-> <<>>,
     pushed |-> <<>>]

\* mpsc::channel(1)
NewChannel == [queue |-> <<>>, tx |-> TRUE, rx |-> TRUE]

\* call is entered; lines 58-64
CallBegin(r, req) ==
    /\ call[r].pc = "idle"
    /\ IF AllowedMethod(req.method)
       THEN /\ call' = [call EXCEPT ![r] =
                   [pc |-> "read", req |-> req, snap |-> InnerEmpty]]
            /\ UNCHANGED <<resp, body>>
       ELSE /\ call' = [call EXCEPT ![r] =
                   [pc |-> "responded", req |-> req, snap |-> InnerEmpty]]
            /\ resp' = [resp EXCEPT ![r] = method_not_allowed.res]
            /\ body' = [body EXCEPT ![r] = method_not_allowed.body]
    /\ UNCHANGED <<lock, probe, headers, encoding, buf, nfills, nconfig, chan,
                   worker, seen>>

\* line 66, self.buf.read(): a read guard is granted when no write guard
\* is out
CallLock(r) ==
    /\ call[r].pc = "read"
    /\ ~lock.writer
    /\ call' = [call EXCEPT ![r].pc = "clone"]
    /\ lock' = [lock EXCEPT !.readers = lock.readers \cup {r}]
    /\ UNCHANGED <<headers, encoding, buf, nfills, nconfig, resp, body, chan,
                   worker, seen, probe>>

\* a call that binds the read guard to a local living to the end of call
CallReadKeepingGuard(r) ==
    /\ call[r].pc = "clone"
    /\ call' = [call EXCEPT ![r].pc = "match", ![r].snap = buf]
    /\ UNCHANGED <<lock, probe, headers, encoding, buf, nfills, nconfig,
                   resp, body, chan, worker, seen>>

\* line 66, .clone() and the end of the statement: the Arc is cloned and
\* the read guard, a temporary, is dropped
CallRead(r) ==
    /\ call[r].pc = "clone"
    /\ call' = [call EXCEPT ![r].pc = "match", ![r].snap = buf]
    /\ lock' = [lock EXCEPT !.readers = lock.readers \ {r}]
    /\ UNCHANGED <<probe, headers, encoding, buf, nfills, nconfig, resp,
                   body, chan, worker, seen>>

\* lines 68-86
CallMatch(r) ==
    /\ call[r].pc = "match"
    /\ LET inner == as_ref(call[r].snap, buf)
           req == call[r].req
           answer(a) ==
               /\ call' = [call EXCEPT ![r].pc = "responded"]
               /\ resp' = [resp EXCEPT ![r] = a.res]
               /\ body' = [body EXCEPT ![r] = a.body]
           ok == [status |-> 200, headers |-> OkHeaders(headers, inner.etag)]
       IN  IF inner.kind = "Empty" THEN answer(no_content)
           ELSE IF IfNoneMatchHit(inner.etag, req) THEN answer(not_modified)
           ELSE IF req.method = "HEAD"
                THEN answer([res |-> ok, body |-> BodyEmpty])
                ELSE /\ call' = [call EXCEPT ![r].pc = "body"]
                     /\ resp' = [resp EXCEPT ![r] = ok]
                     /\ UNCHANGED body
    /\ UNCHANGED <<lock, probe, headers, encoding, buf, nfills, nconfig, chan,
                   worker, seen>>

\* a call that strips content-encoding from the service's own headers too
CallBodyStrippingStore(r) ==
    /\ call[r].pc = "body"
    /\ LET inner == as_ref(call[r].snap, buf)
           served == Serve(encoding, call[r].req, inner.body, resp[r].headers)
       IN  /\ resp' = [resp EXCEPT ![r].headers = served.headers]
           /\ body' = [body EXCEPT ![r] = served.body]
           /\ headers' = IF served.headers = resp[r].headers THEN headers
                         ELSE HeaderRemove(headers, "content-encoding")
           /\ IF served.spawn
              THEN /\ worker' = [worker EXCEPT ![r] =
                                    SpawnDecoder(encoding, inner.body)]
                   /\ chan' = [chan EXCEPT ![r] = NewChannel]
              ELSE UNCHANGED <<worker, chan>>
    /\ call' = [call EXCEPT ![r].pc = "responded"]
    /\ UNCHANGED <<lock, probe, encoding, buf, nfills, nconfig, seen>>

\* lines 88-175
CallBody(r) ==
    /\ call[r].pc = "body"
    /\ LET inner == as_ref(call[r].snap, buf)
           served == Serve(encoding, call[r].req, inner.body, resp[r].headers)
       IN  /\ resp' = [resp EXCEPT ![r].headers = served.headers]
           /\ body' = [body EXCEPT ![r] = served.body]
           /\ IF served.spawn
              THEN /\ worker' = [worker EXCEPT ![r] =
                                    SpawnDecoder(encoding, inner.body)]
                   /\ chan' = [chan EXCEPT ![r] = NewChannel]
              ELSE UNCHANGED <<worker, chan>>
    /\ call' = [call EXCEPT ![r].pc = "responded"]
    /\ UNCHANGED <<lock, probe, headers, encoding, buf, nfills, nconfig, seen>>

(* ----------------------------------------------------------------------- *)
(* The decoder task (service.rs, spawn_blocking closures)                  *)
(* ----------------------------------------------------------------------- *)

Min(a, b) == IF a < b THEN a ELSE b

\* a task that decodes whatever buffer the store holds at each read, not
\* the buffer it was spawned with
WorkerReadCurrent(r) ==
    /\ worker[r].pc = "read"
    /\ LET decoded == Decode(worker[r].enc, buf.body)
           left == Len(decoded.out) - worker[r].pos
       IN  IF left > 0
           THEN /\ \E n \in 1..Min(ChunkSize, left) :
                       worker' = [worker EXCEPT
                           ![r].pc = "send",
                           ![r].chunk = SubSeq(decoded.out, worker[r].pos + 1,
                                               worker[r].pos + n),
                           ![r].pos = worker[r].pos + n]
                /\ UNCHANGED chan
           ELSE /\ worker' = [worker EXCEPT
                       ![r].pc = IF decoded.ok THEN "done" ELSE "read_panic"]
                /\ chan' = [chan EXCEPT ![r].tx = FALSE]
    /\ UNCHANGED <<lock, probe, headers, encoding, buf, nfills, nconfig, call,
                   resp, body, seen>>

\* dec.read(buf).expect("fail to read"); if n == 0 { break }
\* A read gives between one and ChunkSize decoded bytes, zero at the end of
\* a well-formed stream, and an error where the stream is malformed. The
\* closure ending, by break or by panic, drops tx.
WorkerRead(r) ==
    /\ worker[r].pc = "read"
    /\ LET decoded == Decode(worker[r].enc, worker[r].src)
           left == Len(decoded.out) - worker[r].pos
       IN  IF left > 0
           THEN /\ \E n \in 1..Min(ChunkSize, left) :
                       worker' = [worker EXCEPT
                           ![r].pc = "send",
                           ![r].chunk = SubSeq(decoded.out, worker[r].pos + 1,
                                               worker[r].pos + n),
                           ![r].pos = worker[r].pos + n]
                /\ UNCHANGED chan
           ELSE /\ worker' = [worker EXCEPT
                       ![r].pc = IF decoded.ok THEN "done" ELSE "read_panic"]
                /\ chan' = [chan EXCEPT ![r].tx = FALSE]
    /\ UNCHANGED <<lock, probe, headers, encoding, buf, nfills, nconfig, call,
                   resp, body, seen>>

\* the lowest request slot
FirstSlot == CHOOSE s \in Calls : \A t \in Calls : s <= t

\* tasks that all push into one channel, that of the first slot
WorkerSendShared(r) ==
    /\ worker[r].pc = "send"
    /\ IF ~chan[FirstSlot].rx
       THEN /\ worker' = [worker EXCEPT
                   ![r].pc = "send_panic", ![r].chunk = <<>>]
            /\ chan' = [chan EXCEPT ![r].tx = FALSE]
       ELSE /\ Len(chan[FirstSlot].queue) < ChannelCapacity
            /\ chan' = [chan EXCEPT
                   ![FirstSlot].queue =
                       Append(chan[FirstSlot].queue, worker[r].chunk)]
            /\ worker' = [worker EXCEPT
                   ![r].pc = "read",
                   ![r].chunk = <<>>,
                   ![r].pushed = Append(worker[r].pushed, worker[r].chunk)]
    /\ UNCHANGED <<lock, probe, headers, encoding, buf, nfills, nconfig, call,
                   resp, body, seen>>

\* a push whose failure is ignored: the chunk is discarded and the loop
\* goes on reading
WorkerSendIgnoringClosed(r) ==
    /\ worker[r].pc = "send"
    /\ IF ~chan[r].rx
       THEN /\ worker' = [worker EXCEPT ![r].pc = "read", ![r].chunk = <<>>]
            /\ UNCHANGED chan
       ELSE /\ Len(chan[r].queue) < ChannelCapacity
            /\ chan' = [chan EXCEPT
                   ![r].queue = Append(chan[r].queue, worker[r].chunk)]
            /\ worker' = [worker EXCEPT
                   ![r].pc = "read",
                   ![r].chunk = <<>>,
                   ![r].pushed = Append(worker[r].pushed, worker[r].chunk)]
    /\ UNCHANGED <<lock, probe, headers, encoding, buf, nfills, nconfig, call,
                   resp, body, seen>>

\* tx.blocking_send(chunk).expect("fail to blocking_send"): waits while the
\* channel is full, fails once the receiver is gone
WorkerSend(r) ==
    /\ worker[r].pc = "send"
    /\ IF ~chan[r].rx
       THEN /\ worker' = [worker EXCEPT ![r].pc = "send_panic",
                                        ![r].chunk = <<>>]
            /\ chan' = [chan EXCEPT ![r].tx = FALSE]
       ELSE /\ Len(chan[r].queue) < ChannelCapacity
            /\ chan' = [chan EXCEPT
                   ![r].queue = Append(chan[r].queue, worker[r].chunk)]
            /\ worker' = [worker EXCEPT
                   ![r].pc = "read",
                   ![r].chunk = <<>>,
                   ![r].pushed = Append(worker[r].pushed, worker[r].chunk)]
    /\ UNCHANGED <<lock, probe, headers, encoding, buf, nfills, nconfig, call,
                   resp, body, seen>>

(* ----------------------------------------------------------------------- *)
(* body.rs: Body::poll_frame, and the body being dropped                   *)
(* ----------------------------------------------------------------------- *)

\* Frame::data(BodyChunk::Buf(buf)) and Frame::data(BodyChunk::Bytes(bytes))
FrameBuf(bytes) == [kind |-> "Buf", data |-> bytes, text |-> ""]
FrameBytes(bytes, text) == [kind |-> "Bytes", data |-> bytes, text |-> text]
NoFrame == [kind |-> "None", data |-> <<>>, text |-> ""]

\* a receive that reports the end whenever the queue is empty
poll_recv_eager(ch) ==
    IF ch.queue # <<>>
    THEN [poll |-> "some", value |-> Head(ch.queue),
          chan |-> [ch EXCEPT !.queue = Tail(ch.queue)]]
    ELSE [poll |-> "none", value |-> <<>>, chan |-> ch]

\* a receive that does not notice the sender going
poll_recv_never_closed(ch) ==
    IF ch.queue # <<>>
    THEN [poll |-> "some", value |-> Head(ch.queue),
          chan |-> [ch EXCEPT !.queue = Tail(ch.queue)]]
    ELSE [poll |-> "pending", value |-> <<>>, chan |-> ch]

\* mpsc::Receiver::poll_recv: a queued message, or None once every sender
\* is gone and the queue is empty, or Pending
poll_recv(ch) ==
    IF ch.queue # <<>>
    THEN [poll |-> "some", value |-> Head(ch.queue),
          chan |-> [ch EXCEPT !.queue = Tail(ch.queue)]]
    ELSE IF ~ch.tx THEN [poll |-> "none", value |-> <<>>, chan |-> ch]
    ELSE [poll |-> "pending", value |-> <<>>, chan |-> ch]

\* a poll that hands out its buffer without taking it
poll_frame_clone(b, ch) ==
    LET done == [out |-> "done", frame |-> NoFrame, body |-> b, chan |-> ch]
    IN  CASE b.kind = "Empty" -> done
          [] b.kind = "Buf" ->
                [out |-> "frame", frame |-> FrameBuf(b.inner),
                 body |-> b, chan |-> ch]
          [] b.kind = "Bytes" ->
                [out |-> "frame", frame |-> FrameBytes(<<>>, b.text),
                 body |-> b, chan |-> ch]
          [] b.kind = "Stream" ->
                LET ready == poll_recv(ch)
                IN  CASE ready.poll = "pending" ->
                            [out |-> "pending", frame |-> NoFrame,
                             body |-> b, chan |-> ch]
                      [] ready.poll = "none" -> done
                      [] ready.poll = "some" ->
                            [out |-> "frame",
                             frame |-> FrameBytes(ready.value, ""),
                             body |-> b, chan |-> ready.chan]

\* Body::poll_frame: what the poll returns and what it leaves behind
poll_frame(b, ch) ==
    LET done == [out |-> "done", frame |-> NoFrame, body |-> b, chan |-> ch]
    IN  CASE b.kind = "Empty" -> done
          [] b.kind = "Buf" ->
                IF b.taken THEN done
                ELSE [out |-> "frame", frame |-> FrameBuf(b.inner),
                      body |-> [b EXCEPT !.taken = TRUE], chan |-> ch]
          [] b.kind = "Bytes" ->
                IF b.taken THEN done
                ELSE [out |-> "frame", frame |-> FrameBytes(<<>>, b.text),
                      body |-> [b EXCEPT !.taken = TRUE], chan |-> ch]
          [] b.kind = "Stream" ->
                LET ready == poll_recv(ch)
                IN  CASE ready.poll = "pending" ->
                            [out |-> "pending", frame |-> NoFrame,
                             body |-> b, chan |-> ch]
                      [] ready.poll = "none" -> done
                      [] ready.poll = "some" ->
                            [out |-> "frame",
                             frame |-> FrameBytes(ready.value, ""),
                             body |-> b, chan |-> ready.chan]

\* the consumer of the response polls its body
PollFrame(r) ==
    /\ call[r].pc = "responded"
    /\ ~body[r].dropped
    /\ LET polled == poll_frame(body[r], chan[r])
       IN  /\ body' = [body EXCEPT ![r] = polled.body]
           /\ chan' = [chan EXCEPT ![r] = polled.chan]
           /\ seen' = [seen EXCEPT
                  ![r].frames = IF polled.out = "frame"
                                THEN Append(seen[r].frames, polled.frame)
                                ELSE seen[r].frames,
                  ![r].done = seen[r].done \/ polled.out = "done"]
    /\ UNCHANGED <<lock, probe, headers, encoding, buf, nfills, nconfig, call,
                   resp, worker>>

\* the response is dropped: with a Body::Stream the receiver goes, and the
\* messages still queued with it
DropBody(r) ==
    /\ call[r].pc = "responded"
    /\ ~body[r].dropped
    /\ body' = [body EXCEPT ![r].dropped = TRUE]
    /\ chan' = [chan EXCEPT ![r].rx = FALSE, ![r].queue = <<>>]
    /\ UNCHANGED <<lock, probe, headers, encoding, buf, nfills, nconfig, call,
                   resp, worker, seen>>

\* the slot of a dropped response whose task has ended serves a new call
Release(r) ==
    /\ call[r].pc = "responded"
    /\ body[r].dropped
    /\ worker[r].pc \in {"none", "done", "read_panic", "send_panic"}
    /\ call' = [call EXCEPT ![r] = IdleCall]
    /\ resp' = [resp EXCEPT ![r] = NoResponse]
    /\ body' = [body EXCEPT ![r] = NoBody]
    /\ chan' = [chan EXCEPT ![r] = NoChannel]
    /\ worker' = [worker EXCEPT ![r] = NoWorker]
    /\ seen' = [seen EXCEPT ![r] = NothingSeen]
    /\ UNCHANGED <<lock, probe, headers, encoding, buf, nfills, nconfig>>

(* ----------------------------------------------------------------------- *)
(* The specification                                                       *)
(* ----------------------------------------------------------------------- *)

Next ==
    \/ \E e \in Encoding : SetEncoding(e)
    \/ \E h \in OwnerHeaders : OwnerInsert(h[1], h[2])
    \/ \E h \in OwnerHeaders : OwnerAppend(h[1], h[2])
    \/ FillLock
    \/ \E bytes \in Bodies : Fill(bytes)
    \/ \E r \in Calls, req \in Requests : CallBegin(r, req)
    \/ \E r \in Calls : CallLock(r)
    \/ \E r \in Calls : CallRead(r)
    \/ \E r \in Calls : CallMatch(r)
    \/ \E r \in Calls : CallBody(r)
    \/ \E r \in Calls : WorkerRead(r)
    \/ \E r \in Calls : WorkerSend(r)
    \/ \E r \in Calls : PollFrame(r)
    \/ \E r \in Calls : DropBody(r)
    \/ \E r \in Calls : Release(r)

Spec == Init /\ [][Next]_vars

(* ----------------------------------------------------------------------- *)
(* Vocabulary of the properties                                            *)
(* ----------------------------------------------------------------------- *)

\* pat occurs in s as a contiguous run
Occurs(pat, s) ==
    \E i \in 0..(Len(s) - Len(pat)) : SubSeq(s, i + 1, i + Len(pat)) = pat

\* the identity of a byte sequence: the two-quote literal for the empty
\* one, else the quoted hex digest
IdentityOf(bytes) ==
    IF bytes = <<>> THEN <<Quote, Quote>>
    ELSE <<Quote>> \o HexAll(Sha256(bytes)) \o <<Quote>>

Responded(r) == call[r].pc = "responded"

IsGetOrHead(r) == call[r].req.method \in {"GET", "HEAD"}

\* the request's If-None-Match value that call consults holds the token
ConditionalMatch(r) ==
    /\ call[r].req.if_none_match # <<>>
    /\ Occurs(call[r].snap.etag, call[r].req.if_none_match[1])

HasAcceptEncoding(r) == call[r].req.accept_encoding # <<>>

\* the request's Accept-Encoding value that call consults names encoding e
Offers(r, e) ==
    /\ HasAcceptEncoding(r)
    /\ Occurs(as_str(e), call[r].req.accept_encoding[1])

ETagValues(r) == HeaderGetAll(resp[r].headers, "etag")
ContentEncodingValues(r) == HeaderGetAll(resp[r].headers, "content-encoding")

\* the response has no header at all
Bare(r) == resp[r].headers = <<>>

\* the response has the Body::Empty body and no task behind it
EmptyBodied(r) == body[r].kind = "Empty" /\ worker[r].pc = "none"

\* a call answered from a filled snapshot, past the conditional match
Served(r) ==
    /\ Responded(r)
    /\ IsGetOrHead(r)
    /\ call[r].snap.kind = "Filled"
    /\ ~ConditionalMatch(r)

\* the bytes a response's body is made from, for the bodies that have any
HasSource(r) == body[r].kind \in {"Buf", "Stream"}
SourceOf(r) == IF body[r].kind = "Buf" THEN body[r].inner ELSE worker[r].src

(* ----------------------------------------------------------------------- *)
(* C1                                                                      *)
(* ----------------------------------------------------------------------- *)

\* C1: whatever fills interleave with a call, a 200 response has exactly
\* one ETag value, the identity stored in the one snapshot the call cloned,
\* and a body made from that same snapshot's buffer: the bytes behind a
\* Buf or Stream body are that buffer and the ETag is their identity, and a
\* GET with the empty body has the identity of the empty buffer.
C1_SnapshotNeverTorn ==
    \A r \in Calls :
        (Responded(r) /\ resp[r].status = 200) =>
            /\ call[r].snap.kind = "Filled"
            /\ ETagValues(r) = <<call[r].snap.etag>>
            /\ HasSource(r) =>
                   /\ SourceOf(r) = call[r].snap.body
                   /\ ETagValues(r) = <<IdentityOf(SourceOf(r))>>
            /\ (call[r].req.method = "GET" /\ ~HasSource(r)) =>
                   ETagValues(r) = <<IdentityOf(<<>>)>>

\* a 200 response made from the first fill's snapshot, which a second fill
\* has replaced since the call cloned it
C1_Witness ==
    \E r \in Calls :
        /\ Responded(r)
        /\ resp[r].status = 200
        /\ HasSource(r)
        /\ nfills = 2
        /\ buf.body # call[r].snap.body
        /\ ETagValues(r) # <<buf.etag>>

(* ----------------------------------------------------------------------- *)
(* C2                                                                      *)
(* ----------------------------------------------------------------------- *)

\* C2: a request whose method is neither GET nor HEAD is answered 405 with
\* the body "Method not allowed" as one Bytes chunk, with no header and no
\* decoder task, in every state of the store and of the configuration and
\* whatever headers the request has.
C2_MethodGate ==
    \A r \in Calls :
        (Responded(r) /\ ~IsGetOrHead(r)) =>
            /\ resp[r].status = 405
            /\ Bare(r)
            /\ body[r].kind = "Bytes"
            /\ body[r].text = "Method not allowed"
            /\ worker[r].pc = "none"
            /\ seen[r].frames \in
                   {<<>>, <<FrameBytes(<<>>, "Method not allowed")>>}
            /\ seen[r].done =>
                   seen[r].frames = <<FrameBytes(<<>>, "Method not allowed")>>

\* a POST answered on a filled store with a configured encoding, whose
\* If-None-Match holds the current identity and which has Accept-Encoding
C2_Witness ==
    \E r \in Calls :
        /\ Responded(r)
        /\ call[r].req.method = "POST"
        /\ resp[r].status = 405
        /\ buf.kind = "Filled"
        /\ encoding = "Gzip"
        /\ call[r].req.if_none_match # <<>>
        /\ Occurs(buf.etag, call[r].req.if_none_match[1])
        /\ HasAcceptEncoding(r)
        /\ seen[r].done

(* ----------------------------------------------------------------------- *)
(* C3                                                                      *)
(* ----------------------------------------------------------------------- *)

\* C3: as long as no fill has completed, every GET or HEAD is answered 204
\* with the empty body and no header (no ETag, none of the configured
\* headers), whatever the request's headers and the configured encoding.
C3_EmptyStore ==
    nfills = 0 =>
        \A r \in Calls :
            (Responded(r) /\ IsGetOrHead(r)) =>
                /\ resp[r].status = 204
                /\ Bare(r)
                /\ EmptyBodied(r)
                /\ seen[r].frames = <<>>

\* a GET answered before any fill, with headers and an encoding configured
\* and both request headers present
C3_Witness ==
    \E r \in Calls :
        /\ nfills = 0
        /\ Responded(r)
        /\ call[r].req.method = "GET"
        /\ resp[r].status = 204
        /\ encoding = "Br"
        /\ Len(headers) = 2
        /\ call[r].req.if_none_match # <<>>
        /\ HasAcceptEncoding(r)

(* ----------------------------------------------------------------------- *)
(* C4                                                                      *)
(* ----------------------------------------------------------------------- *)

\* C4: a GET or HEAD answered from a filled snapshot whose identity occurs
\* in the If-None-Match value call consults is answered 304 with the empty
\* body and no header at all, for every configured encoding and every
\* Accept-Encoding.
C4_NotModified ==
    \A r \in Calls :
        ( /\ Responded(r)
          /\ IsGetOrHead(r)
          /\ call[r].snap.kind = "Filled"
          /\ ConditionalMatch(r) ) =>
            /\ resp[r].status = 304
            /\ Bare(r)
            /\ EmptyBodied(r)
            /\ seen[r].frames = <<>>

\* a HEAD answered 304 although the encoding is configured and the request
\* does not offer it
C4_Witness ==
    \E r \in Calls :
        /\ Responded(r)
        /\ call[r].req.method = "HEAD"
        /\ call[r].snap.kind = "Filled"
        /\ has_remaining(call[r].snap.body)
        /\ ConditionalMatch(r)
        /\ resp[r].status = 304
        /\ encoding = "Gzip"
        /\ HasAcceptEncoding(r)
        /\ ~Offers(r, encoding)

(* ----------------------------------------------------------------------- *)
(* C5                                                                      *)
(* ----------------------------------------------------------------------- *)

\* C5: a HEAD answered from a filled snapshot without a conditional match
\* is answered 200 with the empty body, the configured headers, all of
\* them and content-encoding among them, followed by one ETag equal to the
\* identity of the snapshot's buffer; this is so for every Accept-Encoding
\* and also for a buffer of zero length.
C5_Head ==
    \A r \in Calls :
        (Served(r) /\ call[r].req.method = "HEAD") =>
            /\ resp[r].status = 200
            /\ EmptyBodied(r)
            /\ seen[r].frames = <<>>
            /\ resp[r].headers =
                   headers \o <<(<<"etag", IdentityOf(call[r].snap.body)>>)>>
            /\ ContentEncodingValues(r) =
                   HeaderGetAll(headers, "content-encoding")

\* a HEAD on a zero-length buffer that keeps the configured content-encoding
\* although the request does not offer the encoding
C5_Witness ==
    \E r \in Calls :
        /\ Served(r)
        /\ call[r].req.method = "HEAD"
        /\ call[r].snap.body = <<>>
        /\ encoding = "Gzip"
        /\ ContentEncodingValues(r) = <<as_str("Gzip")>>
        /\ HasAcceptEncoding(r)
        /\ ~Offers(r, "Gzip")
        /\ HeaderHas(headers, "content-type")

(* ----------------------------------------------------------------------- *)
(* C6                                                                      *)
(* ----------------------------------------------------------------------- *)

\* the GET is one the stored bytes can be handed to as they are
PassThrough(r) ==
    \/ ~HasAcceptEncoding(r)
    \/ encoding = "Identity"
    \/ Offers(r, encoding)

\* C6: a GET answered from a snapshot with a non-empty buffer B, without a
\* conditional match, with no Accept-Encoding, or with the Identity encoding
\* configured, or with the configured wire name occurring in Accept-Encoding,
\* is answered 200 with a Buf body holding B, which the consumer gets as one
\* chunk, with the configured headers unchanged (content-encoding included)
\* followed by one ETag equal to the identity of B, and no decoder task.
C6_PassThrough ==
    \A r \in Calls :
        ( /\ Served(r)
          /\ call[r].req.method = "GET"
          /\ has_remaining(call[r].snap.body)
          /\ PassThrough(r) ) =>
            /\ resp[r].status = 200
            /\ body[r].kind = "Buf"
            /\ body[r].inner = call[r].snap.body
            /\ worker[r].pc = "none"
            /\ resp[r].headers =
                   headers \o <<(<<"etag", IdentityOf(call[r].snap.body)>>)>>
            /\ seen[r].frames \in {<<>>, <<FrameBuf(call[r].snap.body)>>}
            /\ seen[r].done =>
                   seen[r].frames = <<FrameBuf(call[r].snap.body)>>

\* a GET served pass-through because the configured wire name occurs inside
\* a longer Accept-Encoding value, its one chunk delivered and the body done
C6_Witness ==
    \E r \in Calls :
        /\ Served(r)
        /\ call[r].req.method = "GET"
        /\ has_remaining(call[r].snap.body)
        /\ encoding = "Deflate"
        /\ Offers(r, "Deflate")
        /\ call[r].req.accept_encoding[1] # as_str("Deflate")
        /\ ContentEncodingValues(r) = <<as_str("Deflate")>>
        /\ seen[r].done
        /\ seen[r].frames = <<FrameBuf(call[r].snap.body)>>

(* ----------------------------------------------------------------------- *)
(* C7                                                                      *)
(* ----------------------------------------------------------------------- *)

\* C7: a GET answered from a snapshot with a non-empty buffer B, without a
\* conditional match, with Br, Gzip or Deflate configured and an
\* Accept-Encoding in which the configured wire name does not occur, is
\* answered 200 with a Stream body fed by a decoder task for the configured
\* encoding over a copy of B; the response has no content-encoding value,
\* keeps the other configured headers, and its one ETag is the identity of
\* the stored bytes B.
C7_Decode ==
    \A r \in Calls :
        ( /\ Served(r)
          /\ call[r].req.method = "GET"
          /\ has_remaining(call[r].snap.body)
          /\ encoding \in {"Br", "Gzip", "Deflate"}
          /\ HasAcceptEncoding(r)
          /\ ~Offers(r, encoding) ) =>
            /\ resp[r].status = 200
            /\ body[r].kind = "Stream"
            /\ worker[r].pc # "none"
            /\ worker[r].enc = encoding
            /\ worker[r].src = call[r].snap.body
            /\ ContentEncodingValues(r) = <<>>
            /\ \A i \in 1..Len(headers) :
                   headers[i][1] # "content-encoding" =>
                       \E j \in 1..Len(resp[r].headers) :
                           resp[r].headers[j] = headers[i]
            /\ Len(resp[r].headers) =
                   Len(headers) + 1
                       - Len(HeaderGetAll(headers, "content-encoding"))
            /\ ETagValues(r) = <<IdentityOf(call[r].snap.body)>>

\* a decoded GET of a gzip payload for a request that accepts identity: the
\* response lost content-encoding and kept content-type
C7_Witness ==
    \E r \in Calls :
        /\ Served(r)
        /\ call[r].req.method = "GET"
        /\ encoding = "Gzip"
        /\ call[r].snap.body = <<2, 3, 1>>
        /\ HasAcceptEncoding(r)
        /\ call[r].req.accept_encoding[1] = as_str("Identity")
        /\ HeaderHas(headers, "content-encoding")
        /\ HeaderHas(resp[r].headers, "content-type")
        /\ body[r].kind = "Stream"
        /\ ETagValues(r) # <<IdentityOf(Decode("Gzip", <<2, 3, 1>>).out)>>

(* ----------------------------------------------------------------------- *)
(* C8                                                                      *)
(* ----------------------------------------------------------------------- *)

\* the byte sequences of the frames the consumer was given, in order
Received(r) == [i \in 1..Len(seen[r].frames) |-> seen[r].frames[i].data]

RECURSIVE Flatten(_)
Flatten(chunks) ==
    IF chunks = <<>> THEN <<>> ELSE Head(chunks) \o Flatten(Tail(chunks))

IsPrefix(a, b) == Len(a) <= Len(b) /\ SubSeq(b, 1, Len(a)) = a

\* the stored bytes behind the task of slot r are well-formed
WellFormed(r) == Decode(worker[r].enc, worker[r].src).ok

\* C8: for a Stream body, the chunks given to the consumer followed by the
\* chunks still queued are exactly the chunks the task pushed, in the order
\* pushed (after the body is dropped, what was given stays a prefix of what
\* was pushed); the body reports its end only once the task has dropped the
\* sender and every pushed chunk has been given; and over a well-formed
\* buffer the task then ended by reading zero bytes and the chunks given
\* concatenate to the decoded plaintext.
C8_StreamDelivery ==
    \A r \in Calls :
        (Responded(r) /\ body[r].kind = "Stream") =>
            /\ ~body[r].dropped =>
                   Received(r) \o chan[r].queue = worker[r].pushed
            /\ IsPrefix(Received(r), worker[r].pushed)
            /\ \A i \in 1..Len(seen[r].frames) :
                   seen[r].frames[i].kind = "Bytes"
            /\ seen[r].done =>
                   /\ ~chan[r].tx
                   /\ chan[r].queue = <<>>
                   /\ Received(r) = worker[r].pushed
            /\ (seen[r].done /\ WellFormed(r)) =>
                   /\ worker[r].pc = "done"
                   /\ Flatten(Received(r)) =
                          Decode(worker[r].enc, worker[r].src).out

\* a gzip payload of three plaintext bytes streamed to its end in more than
\* one chunk
C8_Witness ==
    \E r \in Calls :
        /\ Responded(r)
        /\ body[r].kind = "Stream"
        /\ worker[r].enc = "Gzip"
        /\ worker[r].src = <<2, 3, 1>>
        /\ seen[r].done
        /\ Len(seen[r].frames) >= 2
        /\ Flatten(Received(r)) = <<1, 1, 1>>

(* ----------------------------------------------------------------------- *)
(* C9                                                                      *)
(* ----------------------------------------------------------------------- *)

\* C9: a snapshot whose buffer has zero length has the two-quote literal as
\* its identity, not the digest of the empty sequence, under every
\* configured encoding; a GET answered from it without a conditional match
\* is answered 200 with the empty body, one ETag equal to the literal, no
\* content-encoding value, and no decoder task, whatever Accept-Encoding is.
C9_EmptyBuffer ==
    /\ (buf.kind = "Filled" /\ buf.body = <<>>) =>
           /\ buf.etag = <<Quote, Quote>>
           /\ buf.etag # <<Quote>> \o HexAll(Sha256(<<>>)) \o <<Quote>>
    /\ \A r \in Calls :
           ( /\ Served(r)
             /\ call[r].req.method = "GET"
             /\ call[r].snap.body = <<>> ) =>
               /\ call[r].snap.etag = <<Quote, Quote>>
               /\ resp[r].status = 200
               /\ EmptyBodied(r)
               /\ seen[r].frames = <<>>
               /\ ETagValues(r) = << <<Quote, Quote>> >>
               /\ ContentEncodingValues(r) = <<>>

\* a GET of a zero-length buffer with gzip configured and an Accept-Encoding
\* that does not offer gzip: content-encoding was stripped, nothing spawned
C9_Witness ==
    \E r \in Calls :
        /\ Served(r)
        /\ call[r].req.method = "GET"
        /\ call[r].snap.body = <<>>
        /\ encoding = "Gzip"
        /\ HeaderGetAll(headers, "content-encoding") # <<>>
        /\ HasAcceptEncoding(r)
        /\ ~Offers(r, "Gzip")
        /\ resp[r].status = 200
        /\ ContentEncodingValues(r) = <<>>
        /\ worker[r].pc = "none"

(* ----------------------------------------------------------------------- *)
(* C10                                                                     *)
(* ----------------------------------------------------------------------- *)

\* C10: no response carries content-encoding: identity. The owner's own
\* headers never hold that value here, so one that does was put there by
\* the component.
C10_NeverSendsIdentity ==
    \A r \in Calls :
        Responded(r) =>
            \A i \in 1..Len(resp[r].headers) :
                resp[r].headers[i] # <<"content-encoding", as_str("Identity")>>

(* ----------------------------------------------------------------------- *)
(* C11                                                                     *)
(* ----------------------------------------------------------------------- *)

\* the task of slot r sits in its push with the queue full
BlockedInPush(r) ==
    /\ worker[r].pc = "send"
    /\ chan[r].rx
    /\ Len(chan[r].queue) >= 1

\* C11: the queue between a task and its consumer never holds more than
\* one chunk; what the task has decoded is what the consumer was given, plus
\* the chunk queued, plus the one chunk the task holds in its push, so with
\* the queue full the task has decoded nothing beyond the chunk it is
\* trying to push, however long the consumer leaves the body unpolled.
C11_Backpressure ==
    \A r \in Calls :
        /\ Len(chan[r].queue) <= 1
        /\ Len(worker[r].chunk) <= ChunkSize
        /\ (body[r].kind = "Stream" /\ ~body[r].dropped) =>
               /\ worker[r].pos =
                      Len(Flatten(Received(r))) + Len(Flatten(chan[r].queue))
                          + Len(worker[r].chunk)
               /\ Len(worker[r].pushed) <= Len(seen[r].frames) + 1
        /\ BlockedInPush(r) => worker[r].chunk # <<>>

\* a task blocked in its push on a full queue that the consumer has not
\* polled yet, with plaintext left to decode
C11_Witness ==
    \E r \in Calls :
        /\ BlockedInPush(r)
        /\ ~body[r].dropped
        /\ seen[r].frames = <<>>
        /\ worker[r].pos <
               Len(Decode(worker[r].enc, worker[r].src).out)

(* ----------------------------------------------------------------------- *)
(* C12                                                                     *)
(* ----------------------------------------------------------------------- *)

Terminated(r) == worker[r].pc \in {"done", "read_panic", "send_panic"}

\* C12: once the body of a streaming response is dropped, a task that is
\* in its push, blocked on a full queue or not, leaves the push only by
\* terminating; a terminated task stays so; and from the drop on the task
\* pushes nothing and starts at most one more read, so it decodes at most
\* one chunk beyond what it held when the receiver went.
C12_Cancellation ==
    [][ \A r \in CallSlots :
            (body[r].kind = "Stream" /\ ~chan[r].rx /\ call'[r].pc # "idle") =>
                /\ worker[r].pc = "send" =>
                       worker'[r].pc \in {"send", "send_panic"}
                /\ Terminated(r) => worker'[r] = worker[r]
                /\ worker'[r].pushed = worker[r].pushed
                /\ worker'[r].pos # worker[r].pos =>
                       (worker[r].pc = "read" /\ worker'[r].pc = "send")
      ]_vars

\* a task ended by its failed push after the body was dropped, with
\* plaintext left that it did not decode
C12_Witness ==
    \E r \in Calls :
        /\ body[r].kind = "Stream"
        /\ body[r].dropped
        /\ worker[r].pc = "send_panic"
        /\ worker[r].pos <
               Len(Decode(worker[r].enc, worker[r].src).out)

(* ----------------------------------------------------------------------- *)
(* C13                                                                     *)
(* ----------------------------------------------------------------------- *)

\* C13: a task whose consumer dropped the body ends normally; it never
\* ends through the panic of its push.
C13_ClosedQueueIsNoFault ==
    \A r \in Calls : worker[r].pc # "send_panic"

(* ----------------------------------------------------------------------- *)
(* C14                                                                     *)
(* ----------------------------------------------------------------------- *)

\* C14: a streaming body reports a normal end only when the whole buffer
\* decoded; after a read error of the decompressor the consumer never sees
\* the body end as if it were complete.
C14_DecodeFaultSurfaces ==
    \A r \in Calls :
        (body[r].kind = "Stream" /\ seen[r].done) =>
            /\ worker[r].pc # "read_panic"
            /\ Decode(worker[r].enc, worker[r].src).ok

(* ----------------------------------------------------------------------- *)
(* C15                                                                     *)
(* ----------------------------------------------------------------------- *)

\* C15: a body that has reported its end reports it again at every later
\* poll, with no chunk and no change of the body; a Body::Buf or a
\* Body::Bytes yields at most one chunk in all, a Body::Empty none.
C15_PollAfterEnd ==
    \A r \in Calls :
        Responded(r) =>
            /\ body[r].kind = "Empty" => seen[r].frames = <<>>
            /\ body[r].kind \in {"Buf", "Bytes"} => Len(seen[r].frames) <= 1
            /\ (seen[r].done /\ ~body[r].dropped) =>
                   LET again == poll_frame(body[r], chan[r])
                   IN  /\ again.out = "done"
                       /\ again.frame = NoFrame
                       /\ again.body = body[r]
                       /\ again.chan = chan[r]

\* a buffered body that gave its one chunk and then reported its end
C15_Witness ==
    \E r \in Calls :
        /\ Responded(r)
        /\ body[r].kind = "Buf"
        /\ ~body[r].dropped
        /\ seen[r].done
        /\ Len(seen[r].frames) = 1

(* ----------------------------------------------------------------------- *)
(* C18                                                                     *)
(* ----------------------------------------------------------------------- *)

\* the chunks the consumer of slot r may still come to see, in order
Outstanding(r) ==
    Flatten(chan[r].queue) \o worker[r].chunk

\* C18: whatever fills follow a call, the body it returned serves the buffer
\* the call read: a buffered body holds and yields exactly that buffer, a
\* streaming body's task decodes that buffer, every chunk received, queued
\* or held is in order a prefix of its plaintext, a body that ends after a
\* complete decode has delivered all of it, and the ETag of the response is
\* the identity of that buffer.
C18_BodyKeepsSnapshot ==
    \A r \in Calls :
        (Responded(r) /\ resp[r].status = 200 /\ HasSource(r)) =>
            LET old == call[r].snap.body
                plain == Decode(worker[r].enc, old).out
            IN  /\ ETagValues(r) = <<IdentityOf(old)>>
                /\ body[r].kind = "Buf" =>
                       /\ body[r].inner = old
                       /\ \A i \in 1..Len(seen[r].frames) :
                              seen[r].frames[i] = FrameBuf(old)
                /\ body[r].kind = "Stream" =>
                       /\ worker[r].src = old
                       /\ IsPrefix(Flatten(Received(r)) \o Outstanding(r),
                                   plain)
                       /\ worker[r].pc = "done" => worker[r].pos = Len(plain)
                       /\ (seen[r].done /\ Decode(worker[r].enc, old).ok) =>
                              Flatten(Received(r)) = plain

\* a streaming body consumed to its end while the store already holds a
\* later buffer with another plaintext
C18_Witness ==
    \E r \in Calls :
        /\ Responded(r)
        /\ resp[r].status = 200
        /\ body[r].kind = "Stream"
        /\ seen[r].done
        /\ seen[r].frames # <<>>
        /\ buf.body # call[r].snap.body
        /\ Flatten(Received(r)) = Decode(worker[r].enc, call[r].snap.body).out
        /\ Decode(worker[r].enc, buf.body).out # Flatten(Received(r))

(* ----------------------------------------------------------------------- *)
(* C19                                                                     *)
(* ----------------------------------------------------------------------- *)

\* The blocking task runs on its own thread of the blocking pool, so a read
\* or a push that can be made is made; the consumer in question keeps
\* polling, so a poll that has something to return is made.
Fairness ==
    \A r \in CallSlots :
        /\ WF_vars(WorkerRead(r))
        /\ WF_vars(WorkerSend(r))
        /\ WF_vars(PollFrame(r))

\* a service whose owner has called set_encoding and is done configuring
InitLive ==
    /\ \E e \in Encoding :
           /\ encoding = e
           /\ headers = HeaderInsert(<<>>, "content-encoding", as_str(e))
    /\ buf = InnerEmpty
    /\ nfills = 0
    /\ nconfig = 1
    /\ call = [r \in CallSlots |-> IdleCall]
    /\ resp = [r \in CallSlots |-> NoResponse]
    /\ body = [r \in CallSlots |-> NoBody]
    /\ chan = [r \in CallSlots |-> NoChannel]
    /\ worker = [r \in CallSlots |-> NoWorker]
    /\ seen = [r \in CallSlots |-> NothingSeen]
    /\ lock = Unlocked
    /\ probe = NoProbe

\* fills, calls, tasks and consumers of the configured service
NextLive ==
    \/ FillLock
    \/ \E bytes \in Bodies : Fill(bytes)
    \/ \E r \in Calls, req \in Requests : CallBegin(r, req)
    \/ \E r \in Calls : CallLock(r)
    \/ \E r \in Calls : CallRead(r)
    \/ \E r \in Calls : CallMatch(r)
    \/ \E r \in Calls : CallBody(r)
    \/ \E r \in Calls : WorkerRead(r)
    \/ \E r \in Calls : WorkerSend(r)
    \/ \E r \in Calls : PollFrame(r)
    \/ \E r \in Calls : DropBody(r)
    \/ \E r \in Calls : Release(r)

SpecLive == InitLive /\ [][NextLive]_vars /\ Fairness

\* the stream of slot r has run to its end on both sides
StreamEnded(r) ==
    /\ worker[r].pc = "done"
    /\ ~chan[r].tx
    /\ chan[r].queue = <<>>
    /\ seen[r].done
    /\ Flatten(Received(r)) = Decode(worker[r].enc, worker[r].src).out

\* C19: a streaming body over a buffer that decodes, whose consumer keeps
\* polling and does not drop it, comes to its end: the task reads zero
\* bytes, ends and closes the queue, and the body reports its end after all
\* the plaintext.
C19_StreamTerminates ==
    \A r \in CallSlots :
        (body[r].kind = "Stream" /\ WellFormed(r))
            ~> (StreamEnded(r) \/ body[r].dropped)

\* a stream over a well-formed buffer of more than one chunk that ran to
\* its end
C19_Witness ==
    \E r \in Calls :
        /\ body[r].kind = "Stream"
        /\ ~body[r].dropped
        /\ WellFormed(r)
        /\ StreamEnded(r)
        /\ Len(seen[r].frames) >= 2

(* ----------------------------------------------------------------------- *)
(* C20                                                                     *)
(* ----------------------------------------------------------------------- *)

\* C20: a read guard is out only while its call is at the statement that
\* clones the handle, before any response, body or task of that call
\* exists; the holder of the write guard can always finish its swap; so
\* whenever no call is at that statement a fill gets the lock, whatever
\* the consumers of returned bodies do, and while a fill holds the lock
\* every returned body can still be polled and every task can still read.
C20_LockScope ==
    /\ \A r \in Calls :
           /\ r \in lock.readers =>
                  /\ call[r].pc = "clone"
                  /\ resp[r] = NoResponse
                  /\ body[r] = NoBody
                  /\ worker[r] = NoWorker
           /\ (Responded(r) /\ ~body[r].dropped) => ENABLED PollFrame(r)
           /\ worker[r].pc = "read" => ENABLED WorkerRead(r)
    /\ lock.writer => lock.readers = {} /\ ENABLED (\E bytes \in Bodies : Fill(bytes))
    /\ (nfills < MaxFills /\ ~lock.writer
            /\ \A r \in Calls : call[r].pc # "clone") => ENABLED FillLock

\* a fill holds the write guard while the consumer of a returned streaming
\* body has not polled and its task is blocked in its push
C20_Witness ==
    \E r \in Calls :
        /\ lock.writer
        /\ Responded(r)
        /\ BlockedInPush(r)
        /\ ~body[r].dropped
        /\ seen[r].frames = <<>>

(* ----------------------------------------------------------------------- *)
(* ETag::matches and Encoding::is_contained_in applied directly, to header *)
(* values that no request of the service specification carries.           *)
(* ----------------------------------------------------------------------- *)

MaxHeaderLen == 7
MaxWords == 3

\* the bytes of an If-None-Match value: quotes, a hex digit, the list comma
ProbeBytes == {Quote, "0", ","}

\* header values as byte strings
ProbeHeaders == UNION { [1..n -> ProbeBytes] : n \in 0..MaxHeaderLen }

\* the token of an empty body and the token of a digest
ProbeETags == {ETagEmpty, ETagNew(<<0>>)}

\* what Accept-Encoding values are made of: the wire names, the list
\* separator, a zero quality, a prefix making a longer token
ProbeWords ==
    { as_str(e) : e \in Encoding }
        \cup { <<",", " ">>, <<";", "q", "=", "0">>, <<"x", "-">> }

ProbeAcceptEncodings ==
    { Flatten(ws) : ws \in UNION { [1..n -> ProbeWords] : n \in 0..MaxWords } }

ProbeInputs ==
    { [fn |-> "matches", applied |-> FALSE, etag |-> t, enc |-> "Identity",
       target |-> h, result |-> FALSE] : t \in ProbeETags, h \in ProbeHeaders }
    \cup
    { [fn |-> "is_contained_in", applied |-> FALSE, etag |-> <<>>, enc |-> e,
       target |-> h, result |-> FALSE] :
           e \in Encoding, h \in ProbeAcceptEncodings }

\* a service left as constructed, and one pair of arguments
InitPure ==
    /\ headers = <<>>
    /\ encoding = "Identity"
    /\ buf = InnerEmpty
    /\ nfills = 0
    /\ nconfig = 0
    /\ call = [r \in CallSlots |-> IdleCall]
    /\ resp = [r \in CallSlots |-> NoResponse]
    /\ body = [r \in CallSlots |-> NoBody]
    /\ chan = [r \in CallSlots |-> NoChannel]
    /\ worker = [r \in CallSlots |-> NoWorker]
    /\ seen = [r \in CallSlots |-> NothingSeen]
    /\ lock = Unlocked
    /\ probe \in ProbeInputs

\* etag.matches(header)
ApplyMatches ==
    /\ probe.fn = "matches"
    /\ ~probe.applied
    /\ probe' = [probe EXCEPT !.applied = TRUE,
                              !.result = matches(probe.etag, probe.target)]
    /\ UNCHANGED <<headers, encoding, buf, nfills, nconfig, call, resp, body,
                   chan, worker, seen, lock>>

\* encoding.is_contained_in(header)
ApplyIsContainedIn ==
    /\ probe.fn = "is_contained_in"
    /\ ~probe.applied
    /\ probe' = [probe EXCEPT
           !.applied = TRUE,
           !.result = is_contained_in(probe.enc, probe.target)]
    /\ UNCHANGED <<headers, encoding, buf, nfills, nconfig, call, resp, body,
                   chan, worker, seen, lock>>

NextPure == ApplyMatches \/ ApplyIsContainedIn

SpecPure == InitPure /\ [][NextPure]_vars

(* ----------------------------------------------------------------------- *)
(* C16                                                                     *)
(* ----------------------------------------------------------------------- *)

\* s is pre, pat, post laid end to end, for some pre and post
SplitsAround(pat, s) ==
    \E i \in 0..Len(s), j \in 0..Len(s) :
        /\ i + Len(pat) + j = Len(s)
        /\ SubSeq(s, 1, i) \o pat \o SubSeq(s, Len(s) - j + 1, Len(s)) = s

\* C16: ETag::matches answers true exactly when the header value is some
\* bytes, the quoted token, some bytes; so false for a value shorter than
\* the token and true for a list that has the token among other validators.
C16_MatchesIsSubstring ==
    (probe.fn = "matches" /\ probe.applied) =>
        /\ probe.result <=> SplitsAround(probe.etag, probe.target)
        /\ Len(probe.target) < Len(probe.etag) => ~probe.result
        /\ (\E i \in 1..Len(probe.target) :
                /\ probe.target[i] = ","
                /\ \/ SubSeq(probe.target, 1, i - 1) = probe.etag
                   \/ SubSeq(probe.target, i + 1, Len(probe.target))
                          = probe.etag) => probe.result

\* the token of a digest found in a list after another validator
C16_Witness ==
    /\ probe.fn = "matches"
    /\ probe.applied
    /\ probe.etag = ETagNew(<<0>>)
    /\ probe.target = ETagEmpty \o <<",">> \o ETagNew(<<0>>)
    /\ probe.result

(* ----------------------------------------------------------------------- *)
(* C17                                                                     *)
(* ----------------------------------------------------------------------- *)

BrCommaGzip == as_str("Br") \o <<",", " ">> \o as_str("Gzip")

\* C17: Encoding::is_contained_in answers true exactly when the header
\* value is some bytes, the wire name, some bytes; "br, gzip" offers Br and
\* Gzip and neither Identity nor Deflate; a name followed by ;q=0 and a
\* name inside a longer token both count as offered.
C17_ContainedIsSubstring ==
    (probe.fn = "is_contained_in" /\ probe.applied) =>
        LET name == as_str(probe.enc)
        IN  /\ probe.result <=> SplitsAround(name, probe.target)
            /\ probe.target = BrCommaGzip =>
                   (probe.result <=> probe.enc \in {"Br", "Gzip"})
            /\ probe.target = name \o <<";", "q", "=", "0">> => probe.result
            /\ probe.target = <<"x", "-">> \o name => probe.result

\* gzip found in x-gzip;q=0
C17_Witness ==
    /\ probe.fn = "is_contained_in"
    /\ probe.applied
    /\ probe.enc = "Gzip"
    /\ probe.target = <<"x", "-">> \o as_str("Gzip") \o <<";", "q", "=", "0">>
    /\ probe.result

(* ----------------------------------------------------------------------- *)
(* C21                                                                     *)
(* ----------------------------------------------------------------------- *)

\* C21: a decoder task exists only for a GET answered 200 from a filled
\* snapshot with a non-empty buffer, whose request has an Accept-Encoding
\* value that does not hold the configured wire name, under a configured
\* encoding of Br, Gzip or Deflate, which is the encoding the task decodes;
\* a 405, 204 or 304 response and the response to a HEAD have no task and
\* no channel.
C21_SpawnOnlyToDecode ==
    \A r \in Calls :
        /\ worker[r].pc # "none" =>
               /\ Responded(r)
               /\ call[r].req.method = "GET"
               /\ resp[r].status = 200
               /\ call[r].snap.kind = "Filled"
               /\ call[r].snap.body # <<>>
               /\ HasAcceptEncoding(r)
               /\ ~Offers(r, encoding)
               /\ encoding \in {"Br", "Gzip", "Deflate"}
               /\ worker[r].enc = encoding
               /\ body[r].kind = "Stream"
        /\ ( \/ resp[r].status \in {405, 204, 304}
             \/ call[r].req.method = "HEAD"
             \/ encoding = "Identity" ) =>
               /\ worker[r] = NoWorker
               /\ chan[r] = NoChannel
               /\ body[r].kind # "Stream"

\* a task at work for a GET in the decode branch
C21_Witness ==
    \E r \in Calls :
        /\ worker[r].pc = "send"
        /\ call[r].req.method = "GET"
        /\ resp[r].status = 200
        /\ HasAcceptEncoding(r)
        /\ ~Offers(r, encoding)

(* ----------------------------------------------------------------------- *)
(* Two calls at once on one configured and filled service.                 *)
(* ----------------------------------------------------------------------- *)

TwoSlots == {1, 2}

\* what set_encoding and fill were given before the calls
StoredEncodings == {"Gzip", "Br"}
StoredBodies == { <<>>, <<2, 3, 1>>, <<1, 2, 0>> }

\* requests of both methods whose Accept-Encoding names gzip, or names it
\* in its second value only
TwoRequests ==
    [method : {"GET", "HEAD"},
     if_none_match : {<<>>},
     accept_encoding :
         { << as_str("Gzip") >>, << as_str("Identity"), as_str("Gzip") >> }]

\* the service after set_encoding(e) and fill(bytes)
InitTwo ==
    /\ \E e \in StoredEncodings :
           /\ encoding = e
           /\ headers = HeaderInsert(<<>>, "content-encoding", as_str(e))
    /\ \E bytes \in StoredBodies : buf = InnerFilled(FillEtag(bytes), bytes)
    /\ nfills = 1
    /\ nconfig = 1
    /\ call = [r \in TwoSlots |-> IdleCall]
    /\ resp = [r \in TwoSlots |-> NoResponse]
    /\ body = [r \in TwoSlots |-> NoBody]
    /\ chan = [r \in TwoSlots |-> NoChannel]
    /\ worker = [r \in TwoSlots |-> NoWorker]
    /\ seen = [r \in TwoSlots |-> NothingSeen]
    /\ lock = Unlocked
    /\ probe = NoProbe

NextTwo ==
    \/ \E r \in Calls, req \in TwoRequests : CallBegin(r, req)
    \/ \E r \in Calls : CallLock(r)
    \/ \E r \in Calls : CallRead(r)
    \/ \E r \in Calls : CallMatch(r)
    \/ \E r \in Calls : CallBody(r)
    \/ \E r \in Calls : WorkerRead(r)
    \/ \E r \in Calls : WorkerSend(r)
    \/ \E r \in Calls : PollFrame(r)
    \/ \E r \in Calls : DropBody(r)
    \/ \E r \in Calls : Release(r)

SpecTwo == InitTwo /\ [][NextTwo]_vars

(* ----------------------------------------------------------------------- *)
(* C22                                                                     *)
(* ----------------------------------------------------------------------- *)

\* C22: of two streaming responses at once, each task decodes its own
\* clone of the buffer its call read and pushes into its own channel: what
\* a task has pushed is, in order, what its own consumer received and what
\* its own queue holds, all of it a prefix of the plaintext, and a body
\* that ends after a complete decode has delivered the whole plaintext;
\* whatever the other response does, stalled or dropped, a task that is at
\* a read can read, a task whose own queue has room or whose own receiver
\* is gone can finish its push, and a poll of a body whose queue holds a
\* chunk or whose task has ended is not left pending.
C22_StreamsIndependent ==
    \A r \in Calls :
        body[r].kind = "Stream" =>
            LET plain == Decode(worker[r].enc, call[r].snap.body)
            IN  /\ worker[r].src = call[r].snap.body
                /\ ~body[r].dropped =>
                       worker[r].pushed = Received(r) \o chan[r].queue
                /\ IsPrefix(Flatten(worker[r].pushed) \o worker[r].chunk,
                            plain.out)
                /\ (seen[r].done /\ plain.ok) =>
                       Flatten(Received(r)) = plain.out
                /\ worker[r].pc = "read" => ENABLED WorkerRead(r)
                /\ ( /\ worker[r].pc = "send"
                     /\ \/ ~chan[r].rx
                        \/ Len(chan[r].queue) < ChannelCapacity ) =>
                       ENABLED WorkerSend(r)
                /\ ( /\ ~body[r].dropped
                     /\ chan[r].queue # <<>> \/ ~chan[r].tx ) =>
                       poll_frame(body[r], chan[r]).out # "pending"

\* two streams over one snapshot: one dropped with its task ended in its
\* push, the other consumed to its end with all the plaintext, in more
\* than one chunk
C22_Witness ==
    \E r \in Calls, o \in Calls :
        /\ r # o
        /\ body[r].kind = "Stream"
        /\ body[o].kind = "Stream"
        /\ call[r].snap = call[o].snap
        /\ body[o].dropped
        /\ worker[o].pc = "send_panic"
        /\ ~body[r].dropped
        /\ seen[r].done
        /\ Len(seen[r].frames) >= 2
        /\ Flatten(Received(r)) = Decode(worker[r].enc, worker[r].src).out

(* ----------------------------------------------------------------------- *)
(* C23                                                                     *)
(* ----------------------------------------------------------------------- *)

\* C23: from the first completed fill on the store holds Inner::Filled,
\* a zero-length body included; every call that clones the handle after a
\* completed fill gets a filled snapshot; and a response made from a filled
\* snapshot is a 200 or a 304, a 204 being made from an empty snapshot
\* only.
C23_NeverEmptyAgain ==
    [][ /\ nfills' >= 1 => buf'.kind = "Filled"
        /\ \A r \in CallSlots :
               /\ ( /\ nfills >= 1
                    /\ call[r].pc = "clone"
                    /\ call'[r].pc = "match" ) =>
                      call'[r].snap.kind = "Filled"
               /\ call'[r].pc = "responded" =>
                      /\ resp'[r].status = 204 =>
                             call'[r].snap.kind = "Empty"
                      /\ ( /\ call'[r].snap.kind = "Filled"
                           /\ call'[r].req.method \in {"GET", "HEAD"} ) =>
                             resp'[r].status \in {200, 304}
      ]_vars

\* a GET answered 200 after a fill with a zero-length body
C23_Witness ==
    \E r \in Calls :
        /\ nfills >= 1
        /\ buf = InnerFilled(ETagEmpty, <<>>)
        /\ call[r].snap = buf
        /\ Responded(r)
        /\ call[r].req.method = "GET"
        /\ resp[r].status = 200

(* ----------------------------------------------------------------------- *)
(* C24                                                                     *)
(* ----------------------------------------------------------------------- *)

\* the response of slot r left the body as stored: to a HEAD, or a
\* buffered body
AsStored(r) ==
    /\ Responded(r)
    /\ resp[r].status = 200
    /\ call[r].req.method = "HEAD" \/ body[r].kind = "Buf"

\* C24: no step of a call changes the stored snapshot, the configured
\* encoding or the service's headers; so whatever other responses had
\* their content-encoding stripped, a response to a HEAD and a response with
\* the buffered body carry the content-encoding the service is configured
\* with.
C24_CallLeavesStore ==
    [][ call' # call =>
            /\ buf' = buf
            /\ encoding' = encoding
            /\ headers' = headers
            /\ nfills' = nfills
            /\ \A r \in TwoSlots :
                   AsStored(r)' =>
                       ContentEncodingValues(r)' = <<as_str(encoding')>>
      ]_vars

\* a response stripped of content-encoding by the decode branch, and beside
\* it a pass-through response of the same store that carries it
C24_Witness ==
    \E r \in Calls, o \in Calls :
        /\ Responded(o)
        /\ body[o].kind = "Stream"
        /\ ContentEncodingValues(o) = <<>>
        /\ AsStored(r)
        /\ body[r].kind = "Buf"
        /\ ContentEncodingValues(r) = <<as_str(encoding)>>
        /\ HeaderGetAll(headers, "content-encoding") = <<as_str(encoding)>>

(* ----------------------------------------------------------------------- *)
(* C25                                                                     *)
(* ----------------------------------------------------------------------- *)

\* C25: of the values a request has for If-None-Match and for
\* Accept-Encoding call consults the first only: a GET or HEAD on a filled
\* snapshot is answered 304 exactly when the first If-None-Match value
\* holds the identity, and a GET answered 200 from a non-empty buffer has
\* the buffered body exactly when there is no Accept-Encoding, or the
\* encoding is Identity, or the first Accept-Encoding value holds the wire
\* name, and the streaming body otherwise.
C25_FirstValueOnly ==
    \A r \in Calls :
        ( /\ Responded(r)
          /\ IsGetOrHead(r)
          /\ call[r].snap.kind = "Filled" ) =>
            /\ resp[r].status = 304 <=> ConditionalMatch(r)
            /\ ( /\ resp[r].status = 200
                 /\ call[r].req.method = "GET"
                 /\ call[r].snap.body # <<>> ) =>
                   /\ body[r].kind \in {"Buf", "Stream"}
                   /\ body[r].kind = "Buf" <=>
                          \/ ~HasAcceptEncoding(r)
                          \/ encoding = "Identity"
                          \/ Offers(r, encoding)

\* the identity only in the second If-None-Match value and the wire name
\* only in the second Accept-Encoding value: answered 200 and decoded
C25_Witness ==
    \E r \in Calls :
        /\ Responded(r)
        /\ call[r].req.method = "GET"
        /\ call[r].snap.kind = "Filled"
        /\ Len(call[r].req.if_none_match) = 2
        /\ ~Occurs(call[r].snap.etag, call[r].req.if_none_match[1])
        /\ Occurs(call[r].snap.etag, call[r].req.if_none_match[2])
        /\ Len(call[r].req.accept_encoding) = 2
        /\ ~Occurs(as_str(encoding), call[r].req.accept_encoding[1])
        /\ Occurs(as_str(encoding), call[r].req.accept_encoding[2])
        /\ resp[r].status = 200
        /\ body[r].kind = "Stream"

====
